---- MODULE Spec2Model ----
(***************************************************************************)
(* Discord Command Cleaner (src/discord-command-cleaner.js).               *)
(*                                                                         *)
(* The program is one sequential control flow (main -> menu handler ->     *)
(* DiscordAPI method -> REST call).  A state of the model is the place     *)
(* where that control flow is suspended (an operator prompt, an            *)
(* outstanding REST call, the rate-limit wait) together with the fields    *)
(* of the DiscordAPI object and the locals of the running handler.  An     *)
(* action is everything the code does from one suspension to the next.     *)
(*                                                                         *)
(* The remote API and the operator are the environment: every response     *)
(* the REST client can deliver and every answer the operator can type is   *)
(* drawn from a small set.                                                 *)
(***************************************************************************)
EXTENDS Integers, Sequences, FiniteSets, TLC

\* ------------------------------------------------------------ bounds
\* The remote answers with a rate-limit condition at most this many times.
MaxRateLimits == 2
\* The longest command listing the remote returns.
MaxCommands == 3

\* ------------------------------------------------- program constants
\* const barWidth = 30;
barWidth == 30
\* error.rawError.retry_after || 5
DefaultRetryAfter == 5
\* retryAfter * 1000: seconds to milliseconds
MsPerSecond == 1000
\* cmd.description.slice(0, 50)
MaxDescriptionShown == 50

\* --------------------------------------------------------- the values
\* this.applicationId = null
Null == "null"
\* The ids the remote can report for the calling application.
AppIds == {"app1", "app2"}
\* Faulty variant: the cached id is never taken.
NeverTruthy(id) == FALSE
\* if (this.applicationId): null is falsy, a snowflake id is truthy.
Truthy(id) == id # Null

\* retry_after as the remote sends it, in seconds; Omitted when the body
\* carries none.  For 1 and 5 seconds the double arithmetic of
\* handleRateLimit agrees with the integer arithmetic used below.
Omitted == -1
RetryAfterValues == {Omitted, 0, 1}

\* What the operator can type at the "Enter Guild ID:" prompt.
GuildInputs == { <<>>, <<"7">>, <<"4", "2">>, <<"4", "x">> }
Digits == {"0", "1", "2", "3", "4", "5", "6", "7", "8", "9"}
\* Faulty variant: validate accepts whatever is typed.
AcceptsAnyInput(input) == TRUE
\* validate: input => /^\d+$/.test(input)
IsGuildId(input) == Len(input) > 0 /\ \A i \in 1..Len(input) : input[i] \in Digits

\* A CommandRecord as the remote returns it.  A description is the sequence
\* of its characters; the empty one stands also for a record without
\* description (both are falsy in `if (cmd.description)`).
CommandIds == 1..MaxCommands
CmdName(i) == IF i = 1 THEN "ping" ELSE IF i = 2 THEN "ban" ELSE "cmd"
BanDescription == <<"B", "a", "n", " ", "a", " ", "u", "s", "e", "r">>
\* A description one character longer than the table shows.
LongDescription == [k \in 1..(MaxDescriptionShown + 1) |-> "x"]
CmdDescription(i) ==
    CASE i % 3 = 1 -> <<>>
      [] i % 3 = 2 -> BanDescription
      [] OTHER -> LongDescription
Command(i) == [id |-> i, name |-> CmdName(i), description |-> CmdDescription(i)]

\* The listings the remote can return: the commands from any first one on,
\* in cyclic order of their ids, up to any length.
Listing(first, n) ==
    [i \in 1..n |-> Command(((first + i - 2) % MaxCommands) + 1)]
Listings == { Listing(first, n) : first \in CommandIds, n \in 0..MaxCommands }

\* ------------------------------------------------------- the requests
\* Routes.user('@me')
RouteUser == [kind |-> "identity", global |-> TRUE, guild |-> <<>>, cmd |-> 0, app |-> Null]
\* Routes.applicationCommands(applicationId)
RouteApplicationCommands(app) ==
    [kind |-> "list", global |-> TRUE, guild |-> <<>>, cmd |-> 0, app |-> app]
\* Routes.applicationCommand(applicationId, commandId)
RouteApplicationCommand(app, c) ==
    [kind |-> "delete", global |-> TRUE, guild |-> <<>>, cmd |-> c, app |-> app]
\* Routes.applicationGuildCommands(applicationId, guildId)
RouteApplicationGuildCommands(app, g) ==
    [kind |-> "list", global |-> FALSE, guild |-> g, cmd |-> 0, app |-> app]
\* Routes.applicationGuildCommand(applicationId, guildId, commandId)
RouteApplicationGuildCommand(app, g, c) ==
    [kind |-> "delete", global |-> FALSE, guild |-> g, cmd |-> c, app |-> app]
NoRequest == [kind |-> "none", global |-> TRUE, guild |-> <<>>, cmd |-> 0, app |-> Null]

\* The activation of a DiscordAPI method: its name and its parameters.
NoOp == [name |-> "none", guild |-> <<>>, cmd |-> 0]
GetGlobalCommandsOp == [name |-> "getGlobalCommands", guild |-> <<>>, cmd |-> 0]
DeleteGlobalCommandOp(c) == [name |-> "deleteGlobalCommand", guild |-> <<>>, cmd |-> c]
GetGuildCommandsOp(g) == [name |-> "getGuildCommands", guild |-> g, cmd |-> 0]
DeleteGuildCommandOp(g, c) == [name |-> "deleteGuildCommand", guild |-> g, cmd |-> c]

\* The REST call a method issues once it holds the application id.
RequestOf(o, app) ==
    CASE o.name = "getGlobalCommands" -> RouteApplicationCommands(app)
      [] o.name = "deleteGlobalCommand" -> RouteApplicationCommand(app, o.cmd)
      [] o.name = "getGuildCommands" -> RouteApplicationGuildCommands(app, o.guild)
      [] o.name = "deleteGuildCommand" -> RouteApplicationGuildCommand(app, o.guild, o.cmd)

IsDeleteOp(o) == o.name \in {"deleteGlobalCommand", "deleteGuildCommand"}
IsListOp(o) == o.name \in {"getGlobalCommands", "getGuildCommands"}


\* ------------------------------------------------------ the responses
\* The text handleRateLimit looks for in error.rawError.message.
RateLimitedText == "You are being rate limited"
\* error.rawError is undefined (an Error the program itself threw).
NoRawError == "no rawError"

\* What awaiting this.rest.get / this.rest.delete yields: the resolved
\* value (ok), or the error it rejects with.
OkResponse(id, list) ==
    [ok |-> TRUE, id |-> id, list |-> list,
     rawMessage |-> NoRawError, retry_after |-> Omitted, message |-> <<>>]
ErrorResponse(raw, retryAfter, msg) ==
    [ok |-> FALSE, id |-> Null, list |-> <<>>,
     rawMessage |-> raw, retry_after |-> retryAfter, message |-> <<msg>>]
NoResponse == [ok |-> TRUE, id |-> Null, list |-> <<>>,
               rawMessage |-> NoRawError, retry_after |-> Omitted, message |-> <<>>]
\* Faulty variant: the error thrown on still looks like a rate limit.
ThrownRateLimit(msg) ==
    [ok |-> FALSE, id |-> Null, list |-> <<>>,
     rawMessage |-> RateLimitedText, retry_after |-> Omitted, message |-> msg]
\* throw new Error(`...: ${error.message}`): an Error without rawError.
ThrownError(msg) ==
    [ok |-> FALSE, id |-> Null, list |-> <<>>,
     rawMessage |-> NoRawError, retry_after |-> Omitted, message |-> msg]

SuccessResponses(r) ==
    CASE r.kind = "identity" -> { OkResponse(id, <<>>) : id \in AppIds }
      [] r.kind = "list" -> { OkResponse(Null, l) : l \in Listings }
      [] r.kind = "delete" -> { OkResponse(Null, <<>>) }
RateLimitResponses ==
    { ErrorResponse(RateLimitedText, ra, RateLimitedText) : ra \in RetryAfterValues }
\* The other errors of the remote API: authentication, not found, transport.
ErrorMessages(r) ==
    CASE r.kind = "identity" -> {"401: Unauthorized"}
      [] r.kind = "list" /\ r.global -> {"Internal Server Error"}
      [] r.kind = "list" /\ ~r.global -> {"Unknown Guild", "Missing Access"}
      [] r.kind = "delete" -> {"Unknown application command"}
ErrorResponses(r) == { ErrorResponse(m, Omitted, m) : m \in ErrorMessages(r) }

\* Faulty variant: the message of the caught error is dropped.
PrefixOnly(prefix, msg) == <<prefix>>
\* `${prefix}: ${error.message}`, kept as its parts.
WrapMessage(prefix, msg) == <<prefix>> \o msg
\* error.message.includes(text)
Includes(msg, text) == \E i \in 1..Len(msg) : msg[i] = text

\* ------------------------------------------------ the rendered table
\* Faulty variant: a description line is printed for every command.
AlwaysDescription(cmd) == TRUE
\* if (cmd.description)
HasDescription(cmd) == cmd.description # <<>>
\* cmd.description.slice(0, 50) + (cmd.description.length > 50 ? '...' : '')
ShownDescription(d) ==
    IF Len(d) > MaxDescriptionShown
    THEN SubSeq(d, 1, MaxDescriptionShown) \o <<".", ".", ".">>
    ELSE d
\* console.log(`  ${index} | ${name} | ${id}`)
RowLine(i, cmd) ==
    [kind |-> "row", number |-> i, name |-> cmd.name, id |-> cmd.id, text |-> <<>>]
\* console.log(`     | ${'\-- ' + ...description...} |`)
DescriptionLine(cmd) ==
    [kind |-> "description", number |-> 0, name |-> "", id |-> 0,
     text |-> ShownDescription(cmd.description)]
\* commands.forEach((cmd, i) => { ... }), from the i-th command on.
RECURSIVE RenderRows(_, _)
RenderRows(cmds, i) ==
    IF i > Len(cmds) THEN <<>>
    ELSE <<RowLine(i, cmds[i])>>
           \o (IF HasDescription(cmds[i]) THEN <<DescriptionLine(cmds[i])>> ELSE <<>>)
           \o RenderRows(cmds, i + 1)

\* -------------------------------------------------- handleRateLimit
\* Faulty variant: no error is recognised as a rate limit.
NeverRateLimitError(e) == FALSE
\* !error?.rawError?.message?.includes('You are being rate limited')
IsRateLimitError(e) == e.rawMessage = RateLimitedText
\* const retryAfter = error.rawError.retry_after || 5;
RetryAfter(e) ==
    IF e.retry_after = Omitted \/ e.retry_after = 0 THEN DefaultRetryAfter
    ELSE e.retry_after
\* const waitTime = Math.floor(progress * retryAfter * 1000), progress = i / barWidth
WaitTime(i, retryAfter) == (i * retryAfter * MsPerSecond) \div barWidth
\* for (let i = 0; i < barWidth; i++) { ...; await this.sleep(waitTime / barWidth); }
\* The sum of the sleeps the loop asks for, from iteration i on, in units of
\* 1/barWidth ms (sleep is asked for waitTime / barWidth ms).
RECURSIVE SleepLoop(_, _)
SleepLoop(i, retryAfter) ==
    IF i < barWidth THEN WaitTime(i, retryAfter) + SleepLoop(i + 1, retryAfter)
    ELSE 0


\* ---------------------------------------------------------- the state
VARIABLES
    hasToken,          \* process.env.DISCORD_BOT_TOKEN is set
    pc,                \* where the control flow is suspended
    exitStatus,        \* the argument of process.exit, -1 while running
    menuShown,         \* the menu prompt has been presented
    handler,           \* the menu function that is running
    guildId,           \* its local guildId
    commands,          \* its local commands
    index,             \* the delete loop: commands handled so far
    deletedCount,      \* its local deletedCount
    results,           \* what each delete call of the loop returned
    confirmed,         \* the confirmation prompt: none, asked, yes, no
    out,               \* the status the handler has printed
    op,                \* the DiscordAPI method that is running
    req,               \* the REST call that is outstanding
    opRL,              \* rate-limit responses the running method has met
    applicationId,     \* DiscordAPI.applicationId
    rateLimitMetrics,  \* DiscordAPI.rateLimitMetrics
    wait,              \* handleRateLimit: retryAfter and the sleep asked for
    issued,            \* the REST calls issued since the menu choice, by kind
    invoked,           \* the methods the menu function has called
    idInvocations,     \* getApplicationId calls since the menu choice
    lastResp,          \* the last response, with the request it answers
    idRet,             \* how the last getApplicationId call ended
    ret,               \* how the last list / delete method call ended
    outstanding,       \* REST calls issued and not yet answered
    lastResolution,    \* how the latest identity resolution of the process ended
    table              \* the table lines the menu function has printed

vars == <<hasToken, pc, exitStatus, menuShown, handler, guildId, commands, index,
          deletedCount, results, confirmed, out, op, req, opRL, applicationId,
          rateLimitMetrics, wait, issued, invoked, idInvocations, lastResp,
          idRet, ret, outstanding, lastResolution, table>>

NoOut == [status |-> "none", deleted |-> 0, total |-> 0, failed |-> 0]
StatusOut(status) == [status |-> status, deleted |-> 0, total |-> 0, failed |-> 0]
NoWait == [retryAfter |-> 0, slept |-> 0]
NoCalls == [identity |-> 0, list |-> 0, delete |-> 0]
NoLastResp == [req |-> NoRequest, resp |-> NoResponse, retries |-> 0]
NoIdRet == [outcome |-> "none", id |-> Null, cached |-> FALSE]
NoRet == [name |-> "none", outcome |-> "none", ok |-> FALSE, list |-> <<>>,
          message |-> <<>>, retries |-> 0]

\* The state as one record, so that the code between two suspensions can be
\* written as a function from state to state.
State ==
    [hasToken |-> hasToken, pc |-> pc, exitStatus |-> exitStatus,
     menuShown |-> menuShown, handler |-> handler, guildId |-> guildId,
     commands |-> commands, index |-> index, deletedCount |-> deletedCount,
     results |-> results, confirmed |-> confirmed, out |-> out, op |-> op,
     req |-> req, opRL |-> opRL, applicationId |-> applicationId,
     rateLimitMetrics |-> rateLimitMetrics, wait |-> wait, issued |-> issued,
     invoked |-> invoked, idInvocations |-> idInvocations, lastResp |-> lastResp, idRet |-> idRet, ret |-> ret,
     outstanding |-> outstanding, lastResolution |-> lastResolution,
     table |-> table]

Becomes(n) ==
    /\ hasToken' = n.hasToken
    /\ pc' = n.pc
    /\ exitStatus' = n.exitStatus
    /\ menuShown' = n.menuShown
    /\ handler' = n.handler
    /\ guildId' = n.guildId
    /\ commands' = n.commands
    /\ index' = n.index
    /\ deletedCount' = n.deletedCount
    /\ results' = n.results
    /\ confirmed' = n.confirmed
    /\ out' = n.out
    /\ op' = n.op
    /\ req' = n.req
    /\ opRL' = n.opRL
    /\ applicationId' = n.applicationId
    /\ rateLimitMetrics' = n.rateLimitMetrics
    /\ wait' = n.wait
    /\ issued' = n.issued
    /\ invoked' = n.invoked
    /\ idInvocations' = n.idInvocations
    /\ lastResp' = n.lastResp
    /\ idRet' = n.idRet
    /\ ret' = n.ret
    /\ outstanding' = n.outstanding
    /\ lastResolution' = n.lastResolution
    /\ table' = n.table

\* constructor(token), and the locals of a handler that is not running.
Init ==
    /\ hasToken \in BOOLEAN
    /\ pc = "start"
    /\ exitStatus = -1
    /\ menuShown = FALSE
    /\ handler = "none"
    /\ guildId = <<>>
    /\ commands = <<>>
    /\ index = 0
    /\ deletedCount = 0
    /\ results = <<>>
    /\ confirmed = "none"
    /\ out = NoOut
    /\ op = NoOp
    /\ req = NoRequest
    /\ opRL = 0
    /\ applicationId = Null
    /\ rateLimitMetrics = [rateLimit |-> 0, rateLimitReset |-> 0,
                           rateLimitRemaining |-> 0, lastRequested |-> 0]
    /\ wait = NoWait
    /\ issued = NoCalls
    /\ invoked = <<>>
    /\ idInvocations = 0
    /\ lastResp = NoLastResp
    /\ idRet = NoIdRet
    /\ ret = NoRet
    /\ outstanding = 0
    /\ lastResolution = "none"
    /\ table = <<>>

\* ------------------------------------------------------ the DiscordAPI
\* this.rest.get(route) / this.rest.delete(route): the call goes out and the
\* method is suspended until the response.
Issue(s, r) ==
    [s EXCEPT !.pc = "remote", !.req = r, !.issued[r.kind] = @ + 1,
              !.outstanding = @ + 1]

\* Faulty variant: getApplicationId without `if (this.applicationId) return`.
CallOpUncached(s, o) ==
    Issue([s EXCEPT !.op = o,
                    !.idInvocations = @ + 1,
                    !.idRet = [outcome |-> "pending", id |-> Null, cached |-> FALSE]],
          RouteUser)

\* The try block of a list / delete method up to its REST call:
\*   const applicationId = await this.getApplicationId();
\*   ... this.rest.get / this.rest.delete (Routes...(applicationId, ...))
\* getApplicationId returns the cached id, or asks the remote for it first.
CallOp(s, o) ==
    IF Truthy(s.applicationId)
    THEN Issue([s EXCEPT !.op = o,
                         !.idInvocations = @ + 1,
                         !.idRet = [outcome |-> "returned", id |-> s.applicationId,
                                    cached |-> TRUE]],
               RequestOf(o, s.applicationId))
    ELSE Issue([s EXCEPT !.op = o,
                         !.idInvocations = @ + 1,
                         !.idRet = [outcome |-> "pending", id |-> Null,
                                    cached |-> FALSE]],
               RouteUser)

\* A method called by a menu function (not by its own retry).
InvokeOp(s, o) == CallOp([s EXCEPT !.opRL = 0, !.invoked = Append(@, o)], o)

\* Faulty variant: the retry goes out at once, without awaiting the wait.
RetriesWhileWaiting(s, e) ==
    [s EXCEPT !.rateLimitMetrics.rateLimit = @ + 1,
              !.wait = [retryAfter |-> DefaultRetryAfter, slept |-> 0],
              !.opRL = @ + 1,
              !.issued[s.req.kind] = @ + 1,
              !.outstanding = @ + 1,
              !.pc = "sleep"]
\* Faulty variant: the occurrence is not counted.
HandleRateLimitUncounted(s, e) ==
    [s EXCEPT !.rateLimitMetrics.rateLimitReset = RetryAfter(e),
              !.wait = [retryAfter |-> RetryAfter(e), slept |-> 0],
              !.opRL = @ + 1,
              !.pc = "sleep"]
\* Faulty variant: the rate-limit error is handed to the caller.
SurfacesRateLimit(s, e) ==
    [s EXCEPT !.ret = [name |-> s.op.name, outcome |-> "raised", ok |-> FALSE,
                       list |-> <<>>, message |-> e.message, retries |-> s.opRL],
              !.pc = "continue"]
\* handleRateLimit from its entry to its first sleep, for a rate-limit error.
\* lastRequested = new Date(): the time of the occurrence, kept as its number.
HandleRateLimitBegin(s, e) ==
    [s EXCEPT !.rateLimitMetrics =
                  [@ EXCEPT !.rateLimit = @ + 1,
                            !.rateLimitReset = RetryAfter(e),
                            !.lastRequested = s.rateLimitMetrics.rateLimit + 1],
              !.wait = [retryAfter |-> RetryAfter(e), slept |-> 0],
              !.opRL = @ + 1,
              !.pc = "sleep"]

\* The total of the loop for every duration handleRateLimit can wait for.
SleepTotals ==
    [d \in {DefaultRetryAfter} \cup { ra \in RetryAfterValues : ra > 0 } |->
        SleepLoop(0, d)]

\* Faulty variant: the retry resolves the identity anew first.
RetriesFromIdentity(s) ==
    CallOpUncached([s EXCEPT !.wait.slept = SleepTotals[s.wait.retryAfter]], s.op)
\* Faulty variant: the method gives up after its second rate limit.
GivesUpAfterTwo(s) ==
    IF s.opRL > 1
    THEN [s EXCEPT !.ret = [name |-> s.op.name, outcome |-> "raised", ok |-> FALSE,
                            list |-> <<>>, message |-> <<"Too many retries">>,
                            retries |-> s.opRL],
                   !.pc = "continue"]
    ELSE CallOp([s EXCEPT !.wait.slept = SleepTotals[s.wait.retryAfter]], s.op)
\* handleRateLimit from its first sleep to `return true`, then the retry of
\* the catch block: return this.<method>(...same arguments).
HandleRateLimitEnd(s) ==
    CallOp([s EXCEPT !.wait.slept = SleepTotals[s.wait.retryAfter]], s.op)


\* --------------------------------------------------- the menu functions
IsGuildHandler(h) == h \in {"listGuildCommands", "deleteGuildCommands"}
\* Faulty variant: the listing functions go on to delete as well.
EveryHandlerDeletes(h) == TRUE
IsDeleteHandler(h) == h \in {"deleteGlobalCommands", "deleteGuildCommands"}

\* Faulty variants of the three tests below.
NeverNoCommands(cmds) == FALSE
ProceedsAlways(answer) == TRUE
CountAlways(count, success) == count + 1

\* if (commands.length === 0)
NoCommands(cmds) == Len(cmds) = 0
\* if (confirm)
Proceeds(answer) == answer
\* if (success) { deletedCount++; ... }
CountAfter(count, success) == IF success THEN count + 1 ELSE count

\* The final summary of the delete loop, with the numbers it prints.
Summary(count, total) ==
    IF count = total
    THEN [status |-> "SUCCESS", deleted |-> count, total |-> 0, failed |-> 0]
    ELSE IF count > 0
    THEN [status |-> "PARTIAL", deleted |-> count, total |-> total,
          failed |-> total - count]
    ELSE [status |-> "FAILED", deleted |-> 0, total |-> 0, failed |-> 0]

\* Faulty variant: the guild batch deletes at global scope.
DeletesGlobally(s, c) == DeleteGlobalCommandOp(c)
\* discordClient.deleteGlobalCommand(cmd.id) / deleteGuildCommand(guildId, cmd.id)
DeleteOpOf(s, c) ==
    IF s.handler = "deleteGuildCommands" THEN DeleteGuildCommandOp(s.guildId, c)
    ELSE DeleteGlobalCommandOp(c)

\* for (const [index, cmd] of commands.entries()) { ... }, then the summary
\* and `await promptContinue()`.
DeleteLoop(s) ==
    IF s.index < Len(s.commands)
    THEN InvokeOp(s, DeleteOpOf(s, s.commands[s.index + 1].id))
    ELSE [s EXCEPT !.out = Summary(s.deletedCount, Len(s.commands)),
                   !.pc = "continue"]

\* A delete method returned `success` to the loop.
DeleteReturned(s, success) ==
    DeleteLoop([s EXCEPT !.ret = [name |-> s.op.name, outcome |-> "returned",
                                  ok |-> success, list |-> <<>>, message |-> <<>>,
                                  retries |-> s.opRL],
                         !.results = Append(@, success),
                         !.deletedCount = CountAfter(@, success),
                         !.index = @ + 1,
                         !.op = NoOp,
                         !.req = NoRequest])

\* A list method returned `cmds` to the menu function.
ListReturned(s, cmds) ==
    LET s1 == [s EXCEPT !.ret = [name |-> s.op.name, outcome |-> "returned",
                                 ok |-> TRUE, list |-> cmds, message |-> <<>>,
                                 retries |-> s.opRL],
                        !.commands = cmds,
                        !.op = NoOp,
                        !.req = NoRequest]
    IN  IF NoCommands(cmds)
        THEN [s1 EXCEPT !.out = StatusOut("noCommands"), !.pc = "continue"]
        ELSE IF IsDeleteHandler(s.handler)
        THEN [s1 EXCEPT !.out = StatusOut("table"),
                        !.table = RenderRows(cmds, 1),
                        !.confirmed = "asked",
                        !.pc = "confirm"]
        ELSE [s1 EXCEPT !.out = StatusOut("table"),
                        !.table = RenderRows(cmds, 1),
                        !.pc = "continue"]

\* Faulty variant: an error of a method ends the process.
OpRaisedFatal(s, msg) == [s EXCEPT !.pc = "exited", !.exitStatus = 1]
\* A method threw `msg`: the catch block of the menu function, then
\* `await promptContinue()`.
OpRaised(s, msg) ==
    [s EXCEPT !.ret = [name |-> s.op.name, outcome |-> "raised", ok |-> FALSE,
                       list |-> <<>>, message |-> msg, retries |-> s.opRL],
              !.op = NoOp,
              !.req = NoRequest,
              !.out = StatusOut(IF IsGuildHandler(s.handler) /\ Includes(msg, "Unknown Guild")
                                THEN "errorUnknownGuild" ELSE "error"),
              !.pc = "continue"]

\* ------------------------------------------- the catch blocks of the API
FailPrefix(o) ==
    CASE o.name = "getGlobalCommands" -> "Failed to get global commands"
      [] o.name = "getGuildCommands" -> "Failed to get guild commands"
      [] OTHER -> "Failed to delete command"
\* Faulty variant: every catch block ends with `throw`.
ThrowsOnEveryError(o) == FALSE
\* The delete methods end their catch block with `return false`, the list
\* methods with `throw new Error(...)`.
ReturnsFalseOnError(o) == IsDeleteOp(o)

\* catch (error) of getGlobalCommands, deleteGlobalCommand, getGuildCommands
\* and deleteGuildCommand.
OpCatch(s, e) ==
    IF IsRateLimitError(e) THEN HandleRateLimitBegin(s, e)
    ELSE IF ReturnsFalseOnError(s.op) THEN DeleteReturned(s, FALSE)
    ELSE OpRaised(s, WrapMessage(FailPrefix(s.op), e.message))

\* Faulty variant: a failed identity resolution leaves an id in the cache.
IdentityCatchCaches(s, e) ==
    [s EXCEPT !.applicationId = "app1",
              !.idRet = [outcome |-> "raised", id |-> Null, cached |-> FALSE],
              !.lastResolution = "failed",
              !.pc = "continue"]
\* Faulty variant: a failed identity resolution ends the process.
IdentityCatchFatal(s, e) == [s EXCEPT !.pc = "exited", !.exitStatus = 1]
\* catch (error) of getApplicationId: what it throws lands in the catch block
\* of the method that called it.
IdentityCatch(s, e) ==
    IF IsRateLimitError(e) THEN HandleRateLimitBegin(s, e)
    ELSE OpCatch([s EXCEPT !.idRet = [outcome |-> "raised", id |-> Null,
                                      cached |-> FALSE],
                           !.lastResolution = "failed"],
                 ThrownError(WrapMessage("Failed to get application ID", e.message)))

\* The response to the outstanding call arrives.
OnResponse(s, r) ==
    LET s1 == [s EXCEPT !.lastResp = [req |-> s.req, resp |-> r, retries |-> s.opRL],
                        !.outstanding = @ - 1]
    IN  IF r.ok
        THEN CASE s.req.kind = "identity" ->
                    \* this.applicationId = response.id; return this.applicationId;
                    Issue([s1 EXCEPT !.applicationId = r.id,
                                     !.lastResolution = "resolved",
                                     !.idRet = [outcome |-> "returned", id |-> r.id,
                                                cached |-> FALSE]],
                          RequestOf(s.op, r.id))
               [] s.req.kind = "list" -> ListReturned(s1, r.list)
               [] s.req.kind = "delete" -> DeleteReturned(s1, TRUE)
        ELSE IF s.req.kind = "identity" THEN IdentityCatch(s1, r)
        ELSE OpCatch(s1, r)

\* ------------------------------------------------------------- actions
\* Faulty variant: the token check is skipped.
TokenNeverMissing(s) == FALSE
\* if (!botToken)
TokenMissing(s) == ~s.hasToken

\* main() up to the first menu prompt.
Main ==
    /\ pc = "start"
    /\ IF TokenMissing(State)
       THEN Becomes([State EXCEPT !.pc = "exited", !.exitStatus = 1])
       ELSE Becomes([State EXCEPT !.pc = "menu", !.menuShown = TRUE])

MenuChoices == {"1", "2", "3", "4", "5"}

\* switch (choice), up to the first suspension of the chosen function.
MenuChoose(choice) ==
    /\ pc = "menu"
    /\ Becomes(
         CASE choice = "1" ->
                InvokeOp([State EXCEPT !.handler = "listGlobalCommands"],
                         GetGlobalCommandsOp)
           [] choice = "2" ->
                InvokeOp([State EXCEPT !.handler = "deleteGlobalCommands"],
                         GetGlobalCommandsOp)
           [] choice = "3" ->
                [State EXCEPT !.handler = "listGuildCommands", !.pc = "guildPrompt"]
           [] choice = "4" ->
                [State EXCEPT !.handler = "deleteGuildCommands", !.pc = "guildPrompt"]
           [] choice = "5" ->
                [State EXCEPT !.pc = "exited", !.exitStatus = 0])

\* The operator answers "Enter Guild ID:"; inquirer asks again until the
\* input passes validate.
GuildInput(input) ==
    /\ pc = "guildPrompt"
    /\ IF IsGuildId(input)
       THEN Becomes(InvokeOp([State EXCEPT !.guildId = input],
                             GetGuildCommandsOp(input)))
       ELSE UNCHANGED vars

\* The remote answers the outstanding call.
Respond(r) ==
    /\ pc = "remote"
    /\ \/ r \in SuccessResponses(req)
       \/ r \in ErrorResponses(req)
       \/ /\ r \in RateLimitResponses
          /\ rateLimitMetrics.rateLimit < MaxRateLimits
    /\ Becomes(OnResponse(State, r))

\* The sleeps of handleRateLimit have elapsed.
RateLimitWaitElapsed ==
    /\ pc = "sleep"
    /\ Becomes(HandleRateLimitEnd(State))

\* The operator answers the confirmation prompt.
Confirm(answer) ==
    /\ pc = "confirm"
    /\ LET s == [State EXCEPT !.confirmed = IF answer THEN "yes" ELSE "no"]
       IN  IF Proceeds(answer)
           THEN Becomes(DeleteLoop([s EXCEPT !.deletedCount = 0, !.index = 0]))
           ELSE Becomes([s EXCEPT !.out = StatusOut("cancelled"),
                                  !.pc = "continue"])

\* The operator presses Enter at promptContinue: the menu function returns,
\* its locals are gone, and the loop of main shows the menu again.
Continue ==
    /\ pc = "continue"
    /\ Becomes([State EXCEPT !.pc = "menu", !.handler = "none", !.guildId = <<>>,
                             !.commands = <<>>, !.index = 0, !.deletedCount = 0,
                             !.results = <<>>, !.confirmed = "none", !.out = NoOut,
                             !.op = NoOp, !.req = NoRequest, !.opRL = 0,
                             !.wait = NoWait, !.issued = NoCalls,
                             !.invoked = <<>>, !.idInvocations = 0,
                             !.lastResp = NoLastResp, !.idRet = NoIdRet,
                             !.ret = NoRet, !.table = <<>>])

AllResponses ==
    RateLimitResponses
      \cup UNION { SuccessResponses(r) \cup ErrorResponses(r) :
                     r \in {RouteUser, RouteApplicationCommands(Null),
                            RouteApplicationGuildCommands(Null, <<>>),
                            RouteApplicationCommand(Null, 0)} }

Next ==
    \/ Main
    \/ \E choice \in MenuChoices : MenuChoose(choice)
    \/ \E input \in GuildInputs : GuildInput(input)
    \/ \E r \in AllResponses : Respond(r)
    \/ RateLimitWaitElapsed
    \/ \E answer \in BOOLEAN : Confirm(answer)
    \/ Continue

\* The delete methods called on a client that has not listed before: the
\* delete loop entered with a one-command listing obtained elsewhere, so that
\* deleteGlobalCommand / deleteGuildCommand run with whatever the cache holds.
DirectScopes == {"deleteGlobalCommands", "deleteGuildCommands"}
DeleteLoopAlone(h, c) ==
    /\ pc = "menu"
    /\ Becomes(DeleteLoop([State EXCEPT !.handler = h,
                                        !.guildId = IF IsGuildHandler(h) THEN <<"7">>
                                                    ELSE <<>>,
                                        !.commands = <<Command(c)>>,
                                        !.confirmed = "yes",
                                        !.deletedCount = 0,
                                        !.index = 0]))

ApiNext ==
    \/ Next
    \/ \E h \in DirectScopes, c \in CommandIds : DeleteLoopAlone(h, c)

\* The program, and the client driven at its delete methods as well.
ApiSpec == Init /\ [][ApiNext]_vars

Spec == Init /\ [][Next]_vars

\* Timers fire: a wait that has begun ends.
FairSpec == Spec /\ WF_vars(RateLimitWaitElapsed)


\* ====================================================================
\* Properties
\* ====================================================================
IsRateLimitResponse(r) == ~r.ok /\ r.rawMessage = RateLimitedText
IsOtherError(r) == ~r.ok /\ r.rawMessage # RateLimitedText
ListOpNames == {"getGlobalCommands", "getGuildCommands"}
DeleteOpNames == {"deleteGlobalCommand", "deleteGuildCommand"}
\* This step issues a REST call of the kind.
IssuesCallOfKind(kind) == issued'[kind] = issued[kind] + 1

\* --------------------------------------------------------------- C1
\* A rate-limit response does not end the method: the method is waiting, or
\* has re-issued the very call that was rate limited.
C1_RateLimitKeepsMethodRunning ==
    IsRateLimitResponse(lastResp.resp) =>
        /\ pc \in {"sleep", "remote"}
        /\ op.name # "none"
        /\ req = lastResp.req
        /\ lastResp.req.kind = "identity" => idRet.outcome = "pending"
\* The success that follows any number of rate limits is what the method
\* returns: the id, the listing, or true.
C1_SuccessIsReturned ==
    (lastResp.req.kind # "none" /\ lastResp.resp.ok) =>
        CASE lastResp.req.kind = "identity" ->
               /\ idRet.outcome = "returned"
               /\ idRet.id = lastResp.resp.id
          [] lastResp.req.kind = "list" ->
               /\ ret.name \in ListOpNames
               /\ ret.outcome = "returned"
               /\ ret.list = lastResp.resp.list
               /\ ret.retries = lastResp.retries
          [] lastResp.req.kind = "delete" ->
               /\ ret.name \in DeleteOpNames
               /\ ret.outcome = "returned"
               /\ ret.ok = TRUE
               /\ ret.retries = lastResp.retries
C1_Safety == C1_RateLimitKeepsMethodRunning /\ C1_SuccessIsReturned
\* C1: for getApplicationId, the list methods and the delete methods, N
\* rate-limit responses followed by one success make the method return the
\* successful result: every rate limit leaves the method running, the step
\* that ends a wait issues the same call again, and the success is returned
\* (no raise, no false).
C1_RateLimitsThenSuccess ==
    /\ []C1_Safety
    /\ [][pc = "sleep" => (pc' = "remote" /\ req' = req /\ op' = op
                              /\ IssuesCallOfKind(req.kind))]_vars
\* A delete method has returned true after as many rate limits as the bound
\* allows.
C1_Witness ==
    /\ ret.name = "deleteGuildCommand"
    /\ ret.outcome = "returned"
    /\ ret.ok
    /\ ret.retries = MaxRateLimits
    /\ lastResp.req.kind = "delete"
    /\ lastResp.resp.ok

\* --------------------------------------------------------------- C2
\* C2: once the wait of handleRateLimit is over, the sleeps it asked for add
\* up to at least the suggested duration retryAfter (wait.slept is in units
\* of 1/barWidth ms).
C2_FullWait ==
    (pc # "sleep" /\ wait.retryAfter > 0) =>
        wait.slept >= wait.retryAfter * MsPerSecond * barWidth

\* --------------------------------------------------------------- C3
\* C3: a non-rate-limit error to the delete call makes the delete method
\* return false, and to the list call makes the list method raise, however
\* many rate limits came before; a delete method never raises.
C3_DeleteFalseListRaises ==
    /\ (IsOtherError(lastResp.resp) /\ lastResp.req.kind = "delete") =>
           /\ ret.name \in DeleteOpNames
           /\ ret.outcome = "returned"
           /\ ret.ok = FALSE
           /\ ret.retries = lastResp.retries
    /\ (IsOtherError(lastResp.resp) /\ lastResp.req.kind = "list") =>
           /\ ret.name \in ListOpNames
           /\ ret.outcome = "raised"
           /\ ret.retries = lastResp.retries
    /\ ret.name \in DeleteOpNames => ret.outcome = "returned"
\* A delete method has returned false on an error that came after a rate
\* limit.
C3_Witness ==
    /\ IsOtherError(lastResp.resp)
    /\ lastResp.req.kind = "delete"
    /\ lastResp.retries >= 1
    /\ ret.name = "deleteGlobalCommand"
    /\ ret.outcome = "returned"
    /\ ~ret.ok


\* --------------------------------------------------------------- C4
\* C4 as stated: once getApplicationId has been called twice, the remote
\* identity call has gone out at most once.
C4_AtMostOneIdentityCall ==
    idInvocations = 2 => issued.identity <= 1
\* C4 as amended: the identity call goes out only while no id is cached, and
\* goes out again only as the retry of an identity call that was rate
\* limited (or, after a failed resolution, on the next menu choice); with
\* the id cached a call of getApplicationId issues nothing.
C4_IdentityCallOnlyWhileUncached ==
    [][IssuesCallOfKind("identity") =>
          /\ applicationId = Null
          /\ \/ issued.identity = 0
             \/ /\ pc = "sleep"
                /\ lastResp.req.kind = "identity"
                /\ IsRateLimitResponse(lastResp.resp)]_vars
\* The second call of getApplicationId was served from the cache: one
\* identity call for two calls.
C4_Witness ==
    /\ idInvocations >= 2
    /\ issued.identity = 1
    /\ idRet.outcome = "returned"
    /\ idRet.cached
    /\ Truthy(applicationId)

\* --------------------------------------------------------------- C5
\* C5: once applicationId is set it never changes, no identity call is
\* issued any more, and every list and delete call carries that id,
\* whatever id the remote would report now.
C5_IdentityNeverChanges ==
    [][Truthy(applicationId) =>
          /\ applicationId' = applicationId
          /\ ~IssuesCallOfKind("identity")
          /\ (IssuesCallOfKind("list") \/ IssuesCallOfKind("delete")) =>
                 req'.app = applicationId]_vars
\* A guild delete call issued with the cached id.
C5_Witness ==
    /\ Truthy(applicationId)
    /\ pc = "remote"
    /\ req.kind = "delete"
    /\ ~req.global
    /\ req.app = applicationId
    /\ idRet.cached

\* --------------------------------------------------------------- C6
TrueCount(rs) == Cardinality({ i \in 1..Len(rs) : rs[i] })
IsDeleteInvocation(o) == o.name \in DeleteOpNames
DeleteInvocations == SelectSeq(invoked, IsDeleteInvocation)
\* The delete call the batch owes to the i-th listed command.
OwedDelete(i) ==
    IF handler = "deleteGuildCommands"
    THEN [name |-> "deleteGuildCommand", guild |-> guildId, cmd |-> commands[i].id]
    ELSE [name |-> "deleteGlobalCommand", guild |-> <<>>, cmd |-> commands[i].id]
\* C6: in a confirmed batch over n listed commands the delete method is
\* called once per command, in listing order, whatever the earlier calls
\* returned; deletedCount is the number of calls that returned true; the
\* summary is SUCCESS iff that is n, PARTIAL (count/n, n - count failures)
\* iff it is between, FAILED iff it is 0.
C6_BatchDeletesAllAndSummarises ==
    confirmed = "yes" =>
        LET n == Len(commands)
            dels == DeleteInvocations
            c == TrueCount(results)
        IN  /\ n >= 1
            /\ pc \in {"remote", "sleep", "continue"}
            /\ Len(dels) <= n
            /\ \A i \in 1..Len(dels) : dels[i] = OwedDelete(i)
            /\ Len(results) = index
            /\ deletedCount = c
            /\ pc \in {"remote", "sleep"} =>
                   /\ Len(dels) = Len(results) + 1
                   /\ out.status = "table"
            /\ pc = "continue" =>
                   /\ Len(dels) = n
                   /\ Len(results) = n
                   /\ out.status \in {"SUCCESS", "PARTIAL", "FAILED"}
                   /\ out.status = "SUCCESS" <=> c = n
                   /\ out.status = "PARTIAL" <=> (0 < c /\ c < n)
                   /\ out.status = "FAILED" <=> c = 0
                   /\ out.status = "SUCCESS" => out.deleted = n
                   /\ out.status = "PARTIAL" =>
                          (out.deleted = c /\ out.total = n /\ out.failed = n - c)
\* Three commands, the calls returned true, false, true: 2/3 and 1 failure.
C6_Witness ==
    /\ pc = "continue"
    /\ results = <<TRUE, FALSE, TRUE>>
    /\ out = [status |-> "PARTIAL", deleted |-> 2, total |-> 3, failed |-> 1]

\* --------------------------------------------------------------- C7
DeleteStarted ==
    \/ issued.delete > 0
    \/ req.kind = "delete"
    \/ Len(DeleteInvocations) > 0
\* C7: no delete call goes out before the operator has answered yes; when
\* the operator declines nothing is deleted and the next step is the menu.
C7_NoDeleteWithoutYes ==
    /\ [](DeleteStarted => confirmed = "yes")
    /\ [](confirmed = "no" =>
            /\ ~DeleteStarted
            /\ out.status = "cancelled"
            /\ pc = "continue")
    /\ [][confirmed = "no" => pc' = "menu"]_vars
\* The operator declined a guild batch over a non-empty listing.
C7_Witness ==
    /\ confirmed = "no"
    /\ handler = "deleteGuildCommands"
    /\ Len(commands) > 0
    /\ issued.delete = 0
    /\ pc = "continue"

\* --------------------------------------------------------------- C8
EmptyListingForDeleteAll ==
    /\ IsDeleteHandler(handler)
    /\ lastResp.req.kind = "list"
    /\ lastResp.resp.ok
    /\ lastResp.resp.list = <<>>
\* C8: an empty listing under a delete-all choice prints the 'no commands'
\* message, asks nothing, deletes nothing, and the next step is the menu.
C8_EmptyListingDeletesNothing ==
    /\ [](EmptyListingForDeleteAll =>
            /\ out.status = "noCommands"
            /\ confirmed = "none"
            /\ ~DeleteStarted
            /\ pc = "continue")
    /\ [][EmptyListingForDeleteAll => pc' = "menu"]_vars
C8_Witness ==
    /\ EmptyListingForDeleteAll
    /\ handler = "deleteGlobalCommands"
    /\ out.status = "noCommands"
    /\ pc = "continue"

\* --------------------------------------------------------------- C9
UnknownGuildAnswer ==
    /\ lastResp.req.kind = "list"
    /\ ~lastResp.req.global
    /\ ~lastResp.resp.ok
    /\ lastResp.resp.message = <<"Unknown Guild">>
\* C9: when the remote answers the guild listing with Unknown Guild,
\* getGuildCommands raises an error that carries it, and the delete-all
\* function handles no command: no confirmation prompt, no delete call,
\* and the next step is the menu.
C9_UnknownGuildDeletesNothing ==
    /\ [](UnknownGuildAnswer =>
            /\ ret.name = "getGuildCommands"
            /\ ret.outcome = "raised"
            /\ Includes(ret.message, "Unknown Guild")
            /\ confirmed = "none"
            /\ ~DeleteStarted
            /\ results = <<>> /\ index = 0 /\ deletedCount = 0
            /\ pc = "continue")
    /\ [][UnknownGuildAnswer => pc' = "menu"]_vars
C9_Witness ==
    /\ UnknownGuildAnswer
    /\ handler = "deleteGuildCommands"
    /\ out.status = "errorUnknownGuild"
    /\ lastResp.retries >= 1
    /\ pc = "continue"

\* -------------------------------------------------------------- C10
\* C10: without the token the process exits with status 1, no REST call
\* has gone out and the menu has never been presented.
C10_NoTokenExitsOne ==
    /\ [](~hasToken =>
            /\ pc \in {"start", "exited"}
            /\ pc = "exited" => exitStatus = 1
            /\ ~menuShown
            /\ issued = NoCalls
            /\ req = NoRequest
            /\ lastResp = NoLastResp)
    /\ [][(~hasToken /\ pc = "start") => (pc' = "exited" /\ exitStatus' = 1)]_vars
C10_Witness ==
    /\ ~hasToken
    /\ pc = "exited"
    /\ exitStatus = 1
    /\ issued = NoCalls

\* -------------------------------------------------------------- C11
\* This step is the arrival of a response (the only step while a call is
\* outstanding); lastResp' holds the response.
ResponseArrives == pc = "remote"
\* This step completes a list or delete method: it returns or raises.
MethodCompletes ==
    /\ ret'.outcome # "none"
    /\ ret' # ret \/ results' # results
\* C11: a response the client recognises as a rate limit ('You are being
\* rate limited', with or without retry_after) never makes a method return
\* or raise: the method goes into the wait and stays in progress; a method
\* completes only in the step where a success or another error arrives.
C11_RateLimitNeverSurfaces ==
    /\ [][(ResponseArrives /\ IsRateLimitResponse(lastResp'.resp)) =>
              /\ pc' = "sleep"
              /\ op' = op /\ op.name # "none"
              /\ ret' = ret
              /\ results' = results
              /\ idRet'.outcome # "raised"
              /\ out' = out]_vars
    /\ [][MethodCompletes =>
              /\ ResponseArrives
              /\ ~IsRateLimitResponse(lastResp'.resp)]_vars
\* deleteGuildCommand was answered with a rate limit that carries no
\* duration, and is waiting.
C11_Witness ==
    /\ pc = "sleep"
    /\ op.name = "deleteGuildCommand"
    /\ lastResp.req.kind = "delete"
    /\ IsRateLimitResponse(lastResp.resp)
    /\ lastResp.resp.retry_after = Omitted
    /\ ret.name # "deleteGuildCommand"

\* -------------------------------------------------------------- C12
\* Since the menu choice, identity resolution or a list method has raised,
\* or a delete method has returned false.
OperationFailed ==
    \/ idRet.outcome = "raised"
    \/ ret.outcome = "raised"
    \/ \E i \in 1..Len(results) : ~results[i]
\* C12: with the token present, a failed identity resolution, listing or
\* deletion never ends the process: the menu function runs on to its
\* promptContinue, whose next step is the menu; the process exits only from
\* the menu, by the Exit choice, with status 0.  (Every menu function
\* catches what its methods raise, so no such failure reaches the catch
\* block of the loop of main, which itself goes on to the menu.)
C12_FailuresReturnToMenu ==
    /\ [](OperationFailed =>
            /\ pc \in {"remote", "sleep", "continue"}
            /\ exitStatus = -1)
    /\ [][(OperationFailed /\ pc = "continue") => pc' = "menu"]_vars
    /\ [][(hasToken /\ pc # "exited" /\ pc' = "exited") =>
              /\ pc = "menu"
              /\ exitStatus' = 0]_vars
    /\ [](hasToken /\ pc = "exited" => exitStatus = 0)
\* A listing failed because identity resolution failed; the function is at
\* its promptContinue.
C12_Witness ==
    /\ hasToken
    /\ idRet.outcome = "raised"
    /\ ret.outcome = "raised"
    /\ ret.name = "getGlobalCommands"
    /\ pc = "continue"
    /\ exitStatus = -1

\* -------------------------------------------------------------- C13
\* The remote rejected identity resolution with an authentication error.
AuthRejected ==
    /\ lastResp.req.kind = "identity"
    /\ ~lastResp.resp.ok
    /\ lastResp.resp.message = <<"401: Unauthorized">>
\* C13 as stated: a missing token and a rejected token both end the process
\* at startup, before the menu.
C13_AuthFailureAbortsStartup ==
    (~hasToken \/ AuthRejected) => (~menuShown /\ pc \in {"start", "exited"})
\* C13 as amended: only the missing token aborts startup.  A token the
\* remote rejects is met after the menu has been shown: the menu function
\* reports the error, nothing is cached, the process keeps running and the
\* next step is the menu.
C13_OnlyMissingTokenAbortsStartup ==
    /\ [](~hasToken => (~menuShown /\ pc \in {"start", "exited"}))
    /\ [](AuthRejected =>
            /\ hasToken
            /\ menuShown
            /\ idRet.outcome = "raised"
            /\ applicationId = Null
            /\ out.status = "error"
            /\ exitStatus = -1
            /\ pc = "continue")
    /\ [][AuthRejected => (pc' = "menu" /\ exitStatus' = -1)]_vars
C13_Witness ==
    /\ AuthRejected
    /\ menuShown
    /\ handler = "listGuildCommands"
    /\ pc = "continue"

\* -------------------------------------------------------------- C14
\* C14: however many rate limits the running method has met (opRL = k, any
\* k the remote delivers), the end of the k-th wait re-issues the request
\* and the method is still in progress, so a method answered only with rate
\* limits never returns or raises; the first answer that is a success or
\* another error completes the operation it answers.
C14_NoMaxRetry ==
    /\ [](pc = "sleep" =>
            /\ opRL >= 1
            /\ op.name # "none"
            /\ outstanding = 0)
    /\ [][pc = "sleep" =>
              /\ pc' = "remote"
              /\ outstanding' = 1
              /\ opRL' = opRL
              /\ ~MethodCompletes
              /\ idRet'.outcome # "raised"]_vars
    /\ [][(ResponseArrives /\ ~IsRateLimitResponse(lastResp'.resp)) =>
              /\ pc' # "sleep"
              /\ opRL' = opRL \/ opRL' = 0
              /\ req.kind = "identity" => idRet'.outcome \in {"returned", "raised"}
              /\ req.kind # "identity" => MethodCompletes]_vars
\* The method has met as many rate limits as the remote delivers and its
\* request is outstanding once more.
C14_Witness ==
    /\ pc = "remote"
    /\ opRL = MaxRateLimits
    /\ IsRateLimitResponse(lastResp.resp)
    /\ req = lastResp.req
    /\ op.name = "getGuildCommands"

\* -------------------------------------------------------------- C15
IssuedTotal(calls) == calls.identity + calls.list + calls.delete
\* C15: at most one REST call is outstanding, and none while the rate-limit
\* wait runs or the operator is asked; a step issues at most one call; the
\* retry goes out in the step that ends the wait; the call for the next
\* command of a batch goes out only when every earlier delete has returned.
C15_OneCallAtATime ==
    /\ [](outstanding = IF pc = "remote" THEN 1 ELSE 0)
    /\ [][IssuedTotal(issued') <= IssuedTotal(issued) + 1]_vars
    /\ [][IssuedTotal(issued') = IssuedTotal(issued) + 1 =>
              /\ pc \in {"menu", "guildPrompt", "confirm", "sleep", "remote"}
              /\ pc = "sleep" => wait'.slept > 0
              /\ pc # "sleep" => wait'.slept = wait.slept \/ wait' = NoWait]_vars
    /\ [](pc = "sleep" => wait.slept = 0)
    /\ []((pc = "remote" /\ req.kind = "delete") =>
            /\ Len(results) = index
            /\ index < Len(commands)
            /\ req.cmd = commands[index + 1].id
            /\ Len(DeleteInvocations) = index + 1)
\* The call for the second command of a batch is outstanding, as a retry
\* after a wait, and the first delete has returned.
C15_Witness ==
    /\ pc = "remote"
    /\ outstanding = 1
    /\ req.kind = "delete"
    /\ index = 1
    /\ Len(results) = 1
    /\ opRL >= 1

\* -------------------------------------------------------------- C16
\* C16: rateLimitMetrics.rateLimit starts at 0 and never decreases; it
\* grows by exactly one in each step in which a rate-limit response
\* arrives, whichever call it answers (the identity call made inside a list
\* or delete method included), and in no other step; in that step the
\* duration is recorded and the wait begins with nothing slept yet, and the
\* wait that follows is for the recorded duration.
C16_RateLimitCounter ==
    /\ rateLimitMetrics.rateLimit = 0
    /\ [][rateLimitMetrics'.rateLimit >= rateLimitMetrics.rateLimit]_vars
    /\ [][(ResponseArrives /\ IsRateLimitResponse(lastResp'.resp)) =>
              /\ rateLimitMetrics'.rateLimit = rateLimitMetrics.rateLimit + 1
              /\ rateLimitMetrics'.rateLimitReset = wait'.retryAfter
              /\ rateLimitMetrics'.lastRequested = rateLimitMetrics'.rateLimit
              /\ wait'.slept = 0
              /\ pc' = "sleep"]_vars
    /\ [][~(ResponseArrives /\ IsRateLimitResponse(lastResp'.resp)) =>
              rateLimitMetrics' = rateLimitMetrics]_vars
    /\ [](pc = "sleep" => rateLimitMetrics.rateLimitReset = wait.retryAfter)
    /\ [](opRL <= rateLimitMetrics.rateLimit)
\* One list method met a rate limit on its identity call and another on its
\* list call: two responses, counter 2.
C16_Witness ==
    /\ rateLimitMetrics.rateLimit = 2
    /\ opRL = 2
    /\ issued.identity = 2
    /\ issued.list = 1
    /\ lastResp.req.kind = "list"
    /\ IsRateLimitResponse(lastResp.resp)
    /\ pc = "sleep"

\* -------------------------------------------------------------- C17
\* C17: the step that ends a rate-limit wait issues exactly one call, and
\* it is the call that was rate limited: same kind, same scope (global or
\* the same guild id), same command id, same application id; during the
\* wait nothing is issued.
C17_IdenticalRetry ==
    /\ [](pc = "sleep" =>
            /\ IsRateLimitResponse(lastResp.resp)
            /\ lastResp.req.kind # "none")
    /\ [][pc = "sleep" =>
              /\ req'.kind = lastResp.req.kind
              /\ req'.global = lastResp.req.global
              /\ req'.guild = lastResp.req.guild
              /\ req'.cmd = lastResp.req.cmd
              /\ req'.app = lastResp.req.app
              /\ issued'[req'.kind] = issued[req'.kind] + 1
              /\ IssuedTotal(issued') = IssuedTotal(issued) + 1]_vars
\* A guild delete call, issued again after its wait.
C17_Witness ==
    /\ pc = "remote"
    /\ opRL >= 1
    /\ IsRateLimitResponse(lastResp.resp)
    /\ req = lastResp.req
    /\ req.kind = "delete"
    /\ ~req.global
    /\ req.guild = <<"4", "2">>
    /\ Truthy(req.app)

\* -------------------------------------------------------------- C18
\* C18: when the rate-limit response carries retry_after, the duration
\* recorded in rateLimitMetrics and the duration the wait is run for are
\* exactly that value (so the default is met only when it is omitted).
C18_ExactDuration ==
    (IsRateLimitResponse(lastResp.resp) /\ lastResp.resp.retry_after # Omitted) =>
        /\ rateLimitMetrics.rateLimitReset = lastResp.resp.retry_after
        /\ wait.retryAfter = lastResp.resp.retry_after

\* -------------------------------------------------------------- C19
AllDigits(g) ==
    /\ Len(g) > 0
    /\ \A i \in 1..Len(g) : g[i] \in {"0", "1", "2", "3", "4", "5", "6", "7", "8", "9"}
GuildOpNames == {"getGuildCommands", "deleteGuildCommand"}
\* C19: every guild-scoped call, and every guild method the shell calls,
\* carries a non-empty guild id of decimal digits; while the shell is at the
\* guild prompt nothing has been issued, and the step that leaves the
\* prompt does so with an input of digits only.
C19_GuildIdAllDigits ==
    /\ []((req.kind \in {"list", "delete"} /\ ~req.global) =>
            (AllDigits(req.guild) /\ req.guild = guildId))
    /\ [](\A i \in 1..Len(invoked) :
            invoked[i].name \in GuildOpNames =>
                (AllDigits(invoked[i].guild) /\ invoked[i].guild = guildId))
    /\ [](pc = "guildPrompt" => (IssuedTotal(issued) = 0 /\ invoked = <<>>))
    /\ [][(pc = "guildPrompt" /\ pc' # "guildPrompt") =>
              /\ AllDigits(guildId')
              /\ op' = [name |-> "getGuildCommands", guild |-> guildId', cmd |-> 0]
              /\ pc' = "remote"]_vars
\* The guild listing call for the input 42.
C19_Witness ==
    /\ pc = "remote"
    /\ handler = "listGuildCommands"
    /\ req.kind = "list"
    /\ ~req.global
    /\ req.guild = <<"4", "2">>
    /\ guildId = <<"4", "2">>

\* -------------------------------------------------------------- C20
IsRow(line) == line.kind = "row"
TableRows == SelectSeq(table, IsRow)
\* C20: the menu function's commands are the listing as the remote returned
\* it; for a non-empty listing the table has one row per command, in that
\* order, with the command's number, name and id; a row is directly
\* followed by a description line exactly when its command has a non-empty
\* description, and a description line stands nowhere else and shows that
\* description (its first 50 characters and '...' when it is longer).
C20_TableRendersListing ==
    /\ [][(ResponseArrives /\ lastResp'.req.kind = "list" /\ lastResp'.resp.ok) =>
              commands' = lastResp'.resp.list]_vars
    /\ [](commands = <<>> => table = <<>>)
    /\ [](commands # <<>> =>
            /\ Len(TableRows) = Len(commands)
            /\ \A i \in 1..Len(commands) :
                  /\ TableRows[i].number = i
                  /\ TableRows[i].name = commands[i].name
                  /\ TableRows[i].id = commands[i].id
            /\ table[1].kind = "row"
            /\ \A j \in 1..Len(table) :
                  /\ table[j].kind \in {"row", "description"}
                  /\ table[j].kind = "row" =>
                        ((j < Len(table) /\ table[j + 1].kind = "description")
                            <=> commands[table[j].number].description # <<>>)
                  /\ table[j].kind = "description" =>
                        /\ j > 1
                        /\ table[j - 1].kind = "row"
                        /\ LET d == commands[table[j - 1].number].description
                           IN  /\ Len(d) <= 50 => table[j].text = d
                               /\ Len(d) > 50 =>
                                     /\ Len(table[j].text) = 53
                                     /\ SubSeq(table[j].text, 1, 50) = SubSeq(d, 1, 50)
                                     /\ SubSeq(table[j].text, 51, 53) = <<".", ".", ".">>)
\* The global listing ping (no description), ban ('Ban a user'): two rows
\* in that order and the description line after the second.
C20_Witness ==
    /\ handler = "listGlobalCommands"
    /\ pc = "continue"
    /\ Len(commands) = 2
    /\ Len(table) = 3
    /\ table[1] = [kind |-> "row", number |-> 1, name |-> "ping", id |-> 1, text |-> <<>>]
    /\ table[2] = [kind |-> "row", number |-> 2, name |-> "ban", id |-> 2, text |-> <<>>]
    /\ table[3].kind = "description"
    /\ table[3].text = <<"B", "a", "n", " ", "a", " ", "u", "s", "e", "r">>

\* -------------------------------------------------------------- C21
\* This step is a menu function calling a list or delete method.
MethodInvoked == Len(invoked') = Len(invoked) + 1
\* C21: when identity resolution ends with an error that is not a rate
\* limit, applicationId stays unset; it stays unset until an identity call
\* succeeds; the next method called issues the identity call again, and its
\* success sets applicationId to the id the remote reports.
C21_FailedIdentityNotCached ==
    /\ [][(ResponseArrives /\ req.kind = "identity" /\ IsOtherError(lastResp'.resp)) =>
              /\ applicationId' = Null
              /\ idRet'.outcome = "raised"
              /\ lastResolution' = "failed"]_vars
    /\ [](lastResolution = "failed" => applicationId = Null)
    /\ [][(lastResolution = "failed" /\ MethodInvoked) =>
              /\ req'.kind = "identity"
              /\ issued'.identity = issued.identity + 1
              /\ pc' = "remote"]_vars
    /\ [][(lastResolution = "failed" /\ ResponseArrives /\ lastResp'.resp.ok) =>
              /\ req.kind = "identity"
              /\ applicationId' = lastResp'.resp.id
              /\ Truthy(applicationId')
              /\ lastResolution' = "resolved"]_vars
\* After a failed resolution and the return to the menu, the next listing
\* has the identity call outstanding again.
C21_Witness ==
    /\ lastResolution = "failed"
    /\ applicationId = Null
    /\ pc = "remote"
    /\ req.kind = "identity"
    /\ issued.identity = 1
    /\ lastResp = NoLastResp
    /\ op.name = "getGuildCommands"

\* -------------------------------------------------------------- C22
\* The identity call made inside a list or delete method was answered with
\* an error that is not a rate limit.
NestedIdentityFailure ==
    /\ lastResp.req.kind = "identity"
    /\ IsOtherError(lastResp.resp)
\* C22: when the identity resolution inside a list or delete method fails
\* with another error than a rate limit, the method ends in that step
\* without waiting or retrying and without its own list or delete call
\* having gone out: a list method raises (the error names the failed
\* resolution), a delete method returns false.
C22_NestedIdentityFailureEndsMethod ==
    /\ [][(ResponseArrives /\ req.kind = "identity" /\ IsOtherError(lastResp'.resp)) =>
              /\ issued' = issued
              /\ outstanding' = 0
              /\ pc' \notin {"remote", "sleep"}
              /\ rateLimitMetrics' = rateLimitMetrics
              /\ ret'.name = op.name
              /\ ret'.retries = opRL]_vars
    /\ [](NestedIdentityFailure =>
            /\ issued.list = 0
            /\ issued.delete = 0
            /\ idRet.outcome = "raised"
            /\ ret.name \in ListOpNames =>
                  /\ ret.outcome = "raised"
                  /\ Includes(ret.message, "Failed to get application ID")
            /\ ret.name \in DeleteOpNames =>
                  /\ ret.outcome = "returned"
                  /\ ~ret.ok
                  /\ results = <<FALSE>>)
\* deleteGuildCommand on a client without cached id: the identity call
\* failed after a rate limit, the method returned false.
C22_Witness ==
    /\ NestedIdentityFailure
    /\ lastResp.retries >= 1
    /\ ret.name = "deleteGuildCommand"
    /\ ret.outcome = "returned"
    /\ ~ret.ok
    /\ issued.delete = 0
\* getGlobalCommands raised because the identity call failed.
C22_ListWitness ==
    /\ NestedIdentityFailure
    /\ ret.name = "getGlobalCommands"
    /\ ret.outcome = "raised"
    /\ issued.list = 0

\* -------------------------------------------------------------- C23
IsListInvocation(o) == o.name \in ListOpNames
ListInvocations == SelectSeq(invoked, IsListInvocation)
ListedIds == { commands[i].id : i \in 1..Len(commands) }
\* C23: every delete call of a delete-all batch is at the scope chosen in
\* the menu (global for option 2; for option 4 the guild id entered for this
\* batch) and targets a command id of the listing fetched at the start of
\* the batch; the batch lists once, before its first delete, and its
\* listing does not change while it deletes.
C23_BatchDeletesOnlyWhatItListed ==
    /\ [](req.kind = "delete" =>
            /\ IsDeleteHandler(handler)
            /\ req.global <=> handler = "deleteGlobalCommands"
            /\ ~req.global => (req.guild = guildId /\ guildId # <<>>)
            /\ req.cmd \in ListedIds
            /\ req.app = applicationId)
    /\ [](\A i \in 1..Len(DeleteInvocations) :
            /\ DeleteInvocations[i].cmd \in ListedIds
            /\ DeleteInvocations[i].guild = guildId
            /\ DeleteInvocations[i].name = "deleteGlobalCommand"
                   <=> handler = "deleteGlobalCommands")
    /\ [](Len(ListInvocations) <= 1)
    /\ [](DeleteStarted =>
            /\ Len(ListInvocations) = 1
            /\ invoked[1] = ListInvocations[1]
            /\ ret.name \in DeleteOpNames \/ ret.list = commands)
    /\ [][DeleteStarted =>
              /\ issued'.list = issued.list \/ issued' = NoCalls
              /\ commands' = commands \/ pc = "continue"]_vars
    /\ [][(ResponseArrives /\ req.kind = "list" /\ lastResp'.resp.ok
             /\ IsDeleteHandler(handler)) =>
              commands' = lastResp'.resp.list]_vars
\* A guild batch has deleted its first command and has the call for its
\* second one outstanding.
C23_Witness ==
    /\ handler = "deleteGuildCommands"
    /\ pc = "remote"
    /\ req.kind = "delete"
    /\ ~req.global
    /\ req.guild = guildId
    /\ index = 1
    /\ results = <<TRUE>>
    /\ req.cmd = commands[2].id
    /\ issued.list = 1

\* -------------------------------------------------------------- C24
ListHandlers == {"listGlobalCommands", "listGuildCommands"}
\* C24: while listGlobalCommands or listGuildCommands runs (from the menu
\* choice to the return to the menu), no delete call is issued and no
\* delete method is called, whatever the remote answers: the function asks
\* for no confirmation and only calls its list method.
C24_ListingIsReadOnly ==
    /\ [](handler \in ListHandlers =>
            /\ ~DeleteStarted
            /\ confirmed = "none"
            /\ results = <<>>
            /\ op.name \in ListOpNames \cup {"none"}
            /\ pc \in {"guildPrompt", "remote", "sleep", "continue"})
    /\ [][(handler \in ListHandlers \/ handler' \in ListHandlers) =>
              /\ issued'.delete = 0
              /\ req'.kind # "delete"]_vars
    /\ [][(pc = "menu" /\ handler' \in ListHandlers) =>
              (pc' # "guildPrompt" => req'.kind \in {"identity", "list"})]_vars
\* listGuildCommands has printed a listing of several commands and is at
\* its promptContinue.
C24_Witness ==
    /\ handler = "listGuildCommands"
    /\ pc = "continue"
    /\ out.status = "table"
    /\ Len(commands) >= 2
    /\ issued.list >= 1
    /\ issued.delete = 0

====
